---- MODULE Spec2Model ----
(***************************************************************************)
(* The Confirm operation (PaymentConfirm: validate_request, get_trackers,  *)
(* update_trackers) and the flow dispatcher (decide_flows / decide_flow of *)
(* cancel_flow.rs) of the payments router, as one pipeline run at a time   *)
(* over a repository that holds one payment intent, its attempt and its    *)
(* connector response.                                                     *)
(***************************************************************************)
EXTENDS Integers, Naturals, Sequences, FiniteSets, TLC

\* ------------------------------------------------------------------ values

\* Option::None of the source, for the scalar fields.
None == "None"

\* A row that a find_* call did not return, and a local not yet assigned.
NoRow == [exists |-> FALSE]

\* Amounts are 1..MaxAmount.
MaxAmount == 2

Amounts == 1..MaxAmount

\* The merchant account the request is authenticated as.
MerchantAccount == [merchant_id |-> "m_1"]

\* The one payment the repository holds.
StoredPaymentId == "pay_123"

StoredTxnId == "txn_1"

\* The id core_utils::get_or_generate_id makes up when the request has none.
GeneratedPaymentId == "pay_generated"

\* The id of an address row made for an address the request supplies.
GeneratedAddressId == "addr_new"

IntentTerminal == {"Succeeded", "Failed"}

IntentStatus == {"RequiresConfirmation", "Processing", "RequiresCustomerAction"}
                  \cup IntentTerminal

AttemptStatus == {"Started", "Pending", "PendingVbv", "Charged", "Failed"}

AuthenticationType == {"NoThreeDs", "ThreeDs"}

PaymentMethodType == {"Card", "Wallet"}

ClientSecrets == {"cs_a", "cs_b"}

\* The (intent status, attempt status) pairs a payment is created or left in
\* by the other flows: fresh, captured, failed.
InitialPairs == { <<"RequiresConfirmation", "Started">>,
                  <<"Succeeded", "Charged">>,
                  <<"Failed", "Failed">> }

\* api::PaymentIdType: only PaymentIntentId resolves with
\* get_payment_intent_id().
PaymentIdInputs == { [kind |-> "Absent", id |-> None],
                     [kind |-> "PaymentIntentId", id |-> StoredPaymentId],
                     [kind |-> "ConnectorTransactionId", id |-> StoredTxnId] }

CallConnectorAction == {"Trigger", "Skip"}

\* What the network call of the execution engine can end in.
ConnectorOutcome == {"Success", "Timeout", "NonSuccessStatus", "MalformedBody"}

\* What the repository can answer to an update of a row it holds.
DbOutcome == {"Ok", "StorageFailure"}

\* --------------------------------------------------------------- variables

VARIABLES
    db_intent,       \* the persisted PaymentIntent row (NoRow: absent)
    db_attempt,      \* the persisted PaymentAttempt row
    db_connector_response, \* the persisted ConnectorResponse row
    db_address,      \* the ids of the persisted address rows
    pc,              \* the position of the pipeline run
    request,         \* the fields of api::PaymentsRequest the stage read
    validated,       \* what validate_request returned to the runner
    gt,              \* the locals of get_trackers, until it returns them
    payment_data,    \* the working state (PaymentData) once assembled
    router_data,     \* the flow invocation record construct_r_d built
    dispatched,      \* what decide_flows was given and what it returned
    result,          \* the run's outcome: None while running
    ut,              \* the locals of update_trackers
    stages,          \* the stages the runner has started, in order
    writes,          \* repository writes made by this run
    calls,           \* connector network calls made by this run
    pre,             \* the persisted rows when the run started
    prior_call_succeeded \* a connector call of an earlier run succeeded

vars == << db_intent, db_attempt, db_connector_response, db_address, pc,
           request, validated, gt, payment_data, router_data, dispatched,
           result, ut, stages, writes, calls, pre, prior_call_succeeded >>

db == << db_intent, db_attempt, db_connector_response, db_address >>

\* ---------------------------------------------------------------- initial

IntentRows ==
    { [exists |-> TRUE, payment_id |-> StoredPaymentId,
       merchant_id |-> MerchantAccount.merchant_id, status |-> p[1],
       client_secret |-> cs, shipping_address_id |-> sh,
       billing_address_id |-> None] :
         p \in InitialPairs, cs \in {None, "cs_a"}, sh \in {None, "addr_s"} }

AttemptRows ==
    { [exists |-> TRUE, payment_id |-> StoredPaymentId,
       merchant_id |-> MerchantAccount.merchant_id, txn_id |-> StoredTxnId,
       status |-> st, payment_method |-> pm, authentication_type |-> au,
       currency |-> cu, amount |-> am] :
         st \in {p[2] : p \in InitialPairs}, pm \in {None, "Card"},
         au \in {None} \cup AuthenticationType, cu \in {None, "USD"},
         am \in Amounts }

ConnectorResponseRow ==
    [exists |-> TRUE, payment_id |-> StoredPaymentId,
     merchant_id |-> MerchantAccount.merchant_id, txn_id |-> StoredTxnId]

\* The request fields a stage reads are kept while that stage and the check
\* of what it returned last: no later stage reads them.
EmptyRequest ==
    [payment_id |-> None, merchant_id |-> None, mandate |-> None,
     payment_method |-> None, client_secret |-> None, shipping |-> None,
     billing |-> None]

\* `reached` is the last step of get_trackers that ran.
NoLocals ==
    [reached |-> None, payment_method_type |-> None, payment_intent |-> NoRow,
     payment_attempt |-> NoRow, currency |-> None, amount |-> 0,
     connector_response |-> NoRow]

NoDispatch == [done |-> FALSE]

Idle ==
    /\ pc = "idle"
    /\ request = EmptyRequest
    /\ validated = NoRow
    /\ gt = NoLocals
    /\ payment_data = NoRow
    /\ router_data = NoRow
    /\ dispatched = NoDispatch
    /\ result = None
    /\ ut = NoRow
    /\ stages = << >>
    /\ writes = 0
    /\ calls = 0
    /\ pre = NoRow

Init ==
    /\ db_intent \in IntentRows
    /\ db_attempt \in {NoRow} \cup
          {a \in AttemptRows : <<db_intent.status, a.status>> \in InitialPairs}
    /\ db_connector_response \in {NoRow, ConnectorResponseRow}
    /\ db_address = {db_intent.shipping_address_id} \ {None}
    /\ prior_call_succeeded = FALSE
    /\ Idle

\* ------------------------------------------------------------ the runner

Ok(v) == [ok |-> TRUE, value |-> v]

Err(e) == [ok |-> FALSE, error |-> e]

\* Option::or
or(a, b) == IF a # None THEN a ELSE b

\* Mutant: a failed validation does not stop the run.
Runner_past_failed_validation(stage, ok) ==
    IF ~ok /\ stage # "ValidateRequest" THEN "failed"
    ELSE CASE stage = "ValidateRequest" -> "get_trackers"
           [] stage = "GetTracker" -> "construct_r_d"
           [] stage = "ConstructFlowSpecificData" -> "decide_flows"
           [] stage = "Dispatcher" -> "update_trackers"
           [] stage = "UpdateTracker" -> "done"

\* The generic runner: the stage it moves to when `stage` has returned.  A
\* stage that returns an error ends the run with that error; the dispatcher
\* returns a pair, never an error of its own.
Runner(stage, ok) ==
    IF ~ok THEN "failed"
    ELSE CASE stage = "ValidateRequest" -> "get_trackers"
           [] stage = "GetTracker" -> "construct_r_d"
           [] stage = "ConstructFlowSpecificData" -> "decide_flows"
           [] stage = "Dispatcher" -> "update_trackers"
           [] stage = "UpdateTracker" -> "done"

\* The position after a step of `stage` that ended with `res`: the stage's
\* next step `next`, or the runner's move when the stage returns.
Step(stage, res, next) ==
    IF res.ok /\ next # "return" THEN next ELSE Runner(stage, res.ok)

\* The run's outcome after that step: None while the run goes on.
Outcome(stage, res, next) ==
    IF ~res.ok THEN res.error
    ELSE IF Step(stage, res, next) = "done" THEN "Ok" ELSE None

StartRun ==
    /\ pc = "idle"
    /\ pc' = "validate_request"
    /\ pre' = [payment_intent |-> db_intent, payment_attempt |-> db_attempt,
               connector_response |-> db_connector_response,
               address |-> db_address]
    /\ UNCHANGED << db, request, validated, gt, payment_data, router_data,
                    dispatched, result, ut, stages, writes, calls,
                    prior_call_succeeded >>

EndRun ==
    /\ pc \in {"done", "failed"}
    /\ pc' = "idle"
    /\ request' = EmptyRequest
    /\ validated' = NoRow
    /\ gt' = NoLocals
    /\ payment_data' = NoRow
    /\ router_data' = NoRow
    /\ dispatched' = NoDispatch
    /\ result' = None
    /\ ut' = NoRow
    /\ stages' = << >>
    /\ writes' = 0
    /\ calls' = 0
    /\ pre' = NoRow
    /\ prior_call_succeeded' =
           (prior_call_succeeded \/ (dispatched.done /\ calls > 0
                                                     /\ dispatched.resp.ok))
    /\ UNCHANGED db

\* ------------------------------------------------------- validate_request

get_payment_intent_id(id_type) ==
    IF id_type.kind = "PaymentIntentId" THEN Ok(id_type.id)
    ELSE Err("PaymentNotFound")

\* helpers::validate_merchant_id: a request that names no merchant passes.
validate_merchant_id(merchant_id, request_merchant_id) ==
    IF request_merchant_id = None \/ request_merchant_id = merchant_id
    THEN Ok(merchant_id)
    ELSE Err("InvalidDataFormat(merchant_id)")

\* helpers::validate_mandate: the mandate type of the request, if it is one.
validate_mandate(mandate) ==
    IF mandate = "Invalid" THEN Err("MandateValidationFailed")
    ELSE Ok(IF mandate = "NoMandate" THEN None ELSE mandate)

\* core_utils::get_or_generate_id
get_or_generate_id(given) ==
    IF given # None THEN given ELSE GeneratedPaymentId

\* Mutant: the payment id is generated also when the request supplies one.
validate_request_generates_id(req_payment_id, req_merchant_id, req_mandate, merchant_account) ==
    LET given_payment_id ==
            IF req_payment_id.kind = "Absent" THEN Ok(None)
            ELSE get_payment_intent_id(req_payment_id)
        merchant == validate_merchant_id(merchant_account.merchant_id,
                                         req_merchant_id)
        mandate_type == validate_mandate(req_mandate)
    IN  IF ~given_payment_id.ok THEN given_payment_id
        ELSE IF ~merchant.ok THEN merchant
        ELSE IF ~mandate_type.ok THEN mandate_type
        ELSE Ok([merchant_id |-> merchant_account.merchant_id,
                 payment_id |->
                     [kind |-> "PaymentIntentId",
                      id |-> get_or_generate_id(None)],
                 mandate_type |-> mandate_type.value])

\* lines 217-252
validate_request(req_payment_id, req_merchant_id, req_mandate, merchant_account) ==
    LET given_payment_id ==
            IF req_payment_id.kind = "Absent" THEN Ok(None)
            ELSE get_payment_intent_id(req_payment_id)
        merchant == validate_merchant_id(merchant_account.merchant_id,
                                         req_merchant_id)
        mandate_type == validate_mandate(req_mandate)
    IN  IF ~given_payment_id.ok THEN given_payment_id
        ELSE IF ~merchant.ok THEN merchant
        ELSE IF ~mandate_type.ok THEN mandate_type
        ELSE Ok([merchant_id |-> merchant_account.merchant_id,
                 payment_id |->
                     [kind |-> "PaymentIntentId",
                      id |-> get_or_generate_id(given_payment_id.value)],
                 mandate_type |-> mandate_type.value])

ValidateRequest ==
    /\ pc = "validate_request"
    /\ \E pid \in PaymentIdInputs, mid \in {None, "m_1", "m_2"},
          mandate \in {"NoMandate", "Invalid"} :
          LET res == validate_request(pid, mid, mandate, MerchantAccount)
          IN  /\ request' = [request EXCEPT !.payment_id = pid,
                                            !.merchant_id = mid,
                                            !.mandate = mandate]
              /\ validated' = res
              /\ pc' = Step("ValidateRequest", res, "return")
              /\ result' = Outcome("ValidateRequest", res, "return")
    /\ stages' = Append(stages, "ValidateRequest")
    /\ UNCHANGED << db, gt, payment_data, router_data, dispatched, ut,
                    writes, calls, pre, prior_call_succeeded >>

\* ----------------------------------------------------------- get_trackers

\* helpers::get_token_pm_type_mandate_details: the payment method type the
\* request names, or a failure to resolve the token or mandate.
get_token_pm_type_mandate_details(req_payment_method, resolvable) ==
    IF resolvable THEN Ok(req_payment_method)
    ELSE Err("MandateDetailsNotFound")

\* lines 51-57: the payment id is resolved, then the token, payment method
\* type and mandate details.
GetTrackers_Begin ==
    /\ pc = "get_trackers"
    /\ validated.ok
    /\ \E pm \in {None} \cup PaymentMethodType, resolvable \in BOOLEAN :
          LET payment_id == get_payment_intent_id(validated.value.payment_id)
              details == get_token_pm_type_mandate_details(pm, resolvable)
              res == IF ~payment_id.ok THEN payment_id ELSE details
          IN  /\ request' = [EmptyRequest EXCEPT !.payment_method = pm]
              /\ gt' = IF res.ok
                       THEN [gt EXCEPT !.reached = "begin",
                                       !.payment_method_type = details.value]
                       ELSE [gt EXCEPT !.reached = "begin"]
              /\ pc' = Step("GetTracker", res, "gt_find_intent")
              /\ result' = Outcome("GetTracker", res, "gt_find_intent")
    /\ stages' = Append(stages, "GetTracker")
    /\ UNCHANGED << db, validated, payment_data, router_data, dispatched,
                    ut, writes, calls, pre, prior_call_succeeded >>

find_payment_intent_by_payment_id_merchant_id(row, payment_id, merchant_id) ==
    IF row.exists /\ row.payment_id = payment_id
                  /\ row.merchant_id = merchant_id
    THEN Ok(row) ELSE Err("PaymentNotFound")

find_payment_attempt_by_payment_id_merchant_id(row, payment_id, merchant_id) ==
    IF row.exists /\ row.payment_id = payment_id
                  /\ row.merchant_id = merchant_id
    THEN Ok(row) ELSE Err("PaymentNotFound")

find_connector_response_by_payment_id_merchant_id_txn_id(row, payment_id, merchant_id, txn_id) ==
    IF row.exists /\ row.payment_id = payment_id
                  /\ row.merchant_id = merchant_id /\ row.txn_id = txn_id
    THEN Ok(row) ELSE Err("PaymentNotFound")

\* Mutant: a request's client secret is refused when the intent has none.
client_secret_invalid_without_stored(req_cs, pi_cs) ==
    req_cs # None /\ req_cs # pi_cs

\* Mutant: eq for ne.
client_secret_invalid_eq(req_cs, pi_cs) ==
    req_cs # None /\ pi_cs # None /\ req_cs = pi_cs

\* lines 66-72: the request's client secret against the stored one.
client_secret_invalid(req_cs, pi_cs) ==
    req_cs # None /\ pi_cs # None /\ req_cs # pi_cs

\* lines 59-72
GetTrackers_FindIntent ==
    /\ pc = "gt_find_intent"
    /\ \E cs \in {None} \cup ClientSecrets :
          LET found == find_payment_intent_by_payment_id_merchant_id(
                           db_intent, validated.value.payment_id.id,
                           validated.value.merchant_id)
              res == IF ~found.ok THEN found
                     ELSE IF client_secret_invalid(cs, found.value.client_secret)
                          THEN Err("ClientSecretInvalid")
                          ELSE found
          IN  /\ request' = [request EXCEPT !.client_secret = cs]
              /\ gt' = IF found.ok
                       THEN [gt EXCEPT !.reached = "client_secret_check",
                                       !.payment_intent = found.value]
                       ELSE [gt EXCEPT !.reached = "find_intent"]
              /\ pc' = Step("GetTracker", res, "gt_find_attempt")
              /\ result' = Outcome("GetTracker", res, "gt_find_attempt")
    /\ UNCHANGED << db, validated, payment_data, router_data, dispatched,
                    ut, stages, writes, calls, pre, prior_call_succeeded >>

\* utils::OptionExt::get_required_value
get_required_value(v, field_name) ==
    IF v # None THEN Ok(v) ELSE Err("MissingRequiredField(currency)")

\* Mutant: the stored payment method wins over the request's.
assign_payment_method_stored_first(payment_method_type, payment_attempt) ==
    LET once == [payment_attempt EXCEPT !.payment_method =
                     or(payment_attempt.payment_method, payment_method_type)]
    IN  [once EXCEPT !.payment_method =
             or(once.payment_method, payment_method_type)]

\* lines 80 and 82: the same assignment, made twice.
assign_payment_method(payment_method_type, payment_attempt) ==
    LET once == [payment_attempt EXCEPT !.payment_method =
                     or(payment_method_type, payment_attempt.payment_method)]
    IN  [once EXCEPT !.payment_method =
             or(payment_method_type, once.payment_method)]

\* Mutant: an attempt without currency is taken to be in USD.
currency_and_amount_defaults(payment_attempt) ==
    Ok([currency |-> or(payment_attempt.currency, "USD"),
        amount |-> payment_attempt.amount])

\* lines 83-84: the currency, which the attempt must have, and the amount.
currency_and_amount(payment_attempt) ==
    LET currency == get_required_value(payment_attempt.currency, "currency")
    IN  IF ~currency.ok THEN currency
        ELSE Ok([currency |-> currency.value,
                 amount |-> payment_attempt.amount])

\* Mutant: the payment method assigned to the loaded attempt is saved to the
\* repository at once.
GetTrackers_FindAttempt_saves_payment_method ==
    /\ pc = "gt_find_attempt"
    /\ LET found == find_payment_attempt_by_payment_id_merchant_id(
                        db_attempt, validated.value.payment_id.id,
                        validated.value.merchant_id)
           payment_attempt == assign_payment_method(gt.payment_method_type,
                                                    found.value)
           read == currency_and_amount(payment_attempt)
           res == IF ~found.ok THEN found ELSE read
       IN  /\ gt' = IF ~found.ok THEN [gt EXCEPT !.reached = "find_attempt"]
                    ELSE IF ~read.ok
                         THEN [gt EXCEPT !.reached = "currency",
                                         !.payment_attempt = payment_attempt]
                         ELSE [gt EXCEPT !.reached = "amount",
                                         !.payment_attempt = payment_attempt,
                                         !.currency = read.value.currency,
                                         !.amount = read.value.amount]
           /\ db_attempt' = IF found.ok THEN payment_attempt ELSE db_attempt
           /\ pc' = Step("GetTracker", res, "gt_find_connector_response")
           /\ result' = Outcome("GetTracker", res,
                               "gt_find_connector_response")
    /\ UNCHANGED << db_intent, db_connector_response, db_address, request,
                    validated, payment_data, router_data, dispatched, ut,
                    stages, writes, calls, pre, prior_call_succeeded >>

\* lines 74-84
GetTrackers_FindAttempt ==
    /\ pc = "gt_find_attempt"
    /\ LET found == find_payment_attempt_by_payment_id_merchant_id(
                        db_attempt, validated.value.payment_id.id,
                        validated.value.merchant_id)
           payment_attempt == assign_payment_method(gt.payment_method_type,
                                                    found.value)
           read == currency_and_amount(payment_attempt)
           res == IF ~found.ok THEN found ELSE read
       IN  /\ gt' = IF ~found.ok THEN [gt EXCEPT !.reached = "find_attempt"]
                    ELSE IF ~read.ok
                         THEN [gt EXCEPT !.reached = "currency",
                                         !.payment_attempt = payment_attempt]
                         ELSE [gt EXCEPT !.reached = "amount",
                                         !.payment_attempt = payment_attempt,
                                         !.currency = read.value.currency,
                                         !.amount = read.value.amount]
           /\ pc' = Step("GetTracker", res, "gt_find_connector_response")
           /\ result' = Outcome("GetTracker", res,
                               "gt_find_connector_response")
    /\ UNCHANGED << db, request, validated, payment_data, router_data,
                    dispatched, ut, stages, writes, calls, pre,
                    prior_call_succeeded >>

\* Mutant: a missing connector response is not an error.
GetTrackers_FindConnectorResponse_optional ==
    /\ pc = "gt_find_connector_response"
    /\ LET found == find_connector_response_by_payment_id_merchant_id_txn_id(
                        db_connector_response, gt.payment_attempt.payment_id,
                        gt.payment_attempt.merchant_id,
                        gt.payment_attempt.txn_id)
       IN  /\ gt' = IF found.ok
                    THEN [gt EXCEPT !.reached = "find_connector_response",
                                    !.connector_response = found.value]
                    ELSE [gt EXCEPT !.reached = "find_connector_response"]
           /\ pc' = Step("GetTracker", Ok(NoRow), "gt_addresses")
           /\ result' = Outcome("GetTracker", Ok(NoRow), "gt_addresses")
    /\ UNCHANGED << db, request, validated, payment_data, router_data,
                    dispatched, ut, stages, writes, calls, pre,
                    prior_call_succeeded >>

\* lines 86-95
GetTrackers_FindConnectorResponse ==
    /\ pc = "gt_find_connector_response"
    /\ LET found == find_connector_response_by_payment_id_merchant_id_txn_id(
                        db_connector_response, gt.payment_attempt.payment_id,
                        gt.payment_attempt.merchant_id,
                        gt.payment_attempt.txn_id)
       IN  /\ gt' = IF found.ok
                    THEN [gt EXCEPT !.reached = "find_connector_response",
                                    !.connector_response = found.value]
                    ELSE [gt EXCEPT !.reached = "find_connector_response"]
           /\ pc' = Step("GetTracker", found, "gt_addresses")
           /\ result' = Outcome("GetTracker", found, "gt_addresses")
    /\ UNCHANGED << db, request, validated, payment_data, router_data,
                    dispatched, ut, stages, writes, calls, pre,
                    prior_call_succeeded >>

\* helpers::get_address_for_payment_request: the address the request
\* supplies (kept under the stored id, or a new one), else the stored one.
get_address_for_payment_request(req_address, address_id, found) ==
    IF req_address = None /\ address_id = None THEN Ok(NoRow)
    ELSE IF ~found THEN Err("InternalServerError")
    ELSE Ok([exists |-> TRUE,
             address_id |-> or(address_id, GeneratedAddressId)])

\* The address rows get_address_for_payment_request persists while it
\* resolves an address: nothing is persisted before update_trackers.
address_rows_written(req_address, address_id, found) == {}

\* Option::map(|i| i.address_id)
map_address_id(address) ==
    IF address.exists THEN address.address_id ELSE None

\* Mutant: the status check forgets Failed.
confirm_refuses_only_succeeded(status) == status = "Succeeded"

\* lines 113-118: the intent statuses Confirm refuses.
confirm_refuses(status) == status \in {"Succeeded", "Failed"}

\* lines 97-148
GetTrackers_Finish ==
    /\ pc = "gt_addresses"
    /\ \E shipping \in {None, "address"}, billing \in {None, "address"},
          found \in BOOLEAN :
          LET shipping_address == get_address_for_payment_request(
                  shipping, gt.payment_intent.shipping_address_id, found)
              billing_address == get_address_for_payment_request(
                  billing, gt.payment_intent.billing_address_id, found)
              addresses == IF ~shipping_address.ok THEN shipping_address
                           ELSE billing_address
              payment_intent ==
                  [gt.payment_intent EXCEPT
                     !.shipping_address_id =
                         map_address_id(shipping_address.value),
                     !.billing_address_id =
                         map_address_id(billing_address.value)]
              res == IF ~addresses.ok THEN addresses
                     ELSE IF confirm_refuses(payment_intent.status)
                          THEN Err("InvalidDataFormat(payment_id)")
                          ELSE Ok([payment_intent |-> payment_intent,
                                   payment_attempt |-> gt.payment_attempt,
                                   currency |-> gt.currency,
                                   connector_response |-> gt.connector_response,
                                   amount |-> gt.amount,
                                   address |->
                                     [shipping |-> shipping_address.value,
                                      billing |-> billing_address.value]])
          IN  /\ request' = [request EXCEPT !.shipping = shipping,
                                            !.billing = billing]
              /\ gt' = IF res.ok THEN NoLocals
                       ELSE IF addresses.ok
                            THEN [gt EXCEPT !.reached = "status_check",
                                            !.payment_intent = payment_intent]
                            ELSE [gt EXCEPT !.reached = "addresses"]
              /\ payment_data' = IF res.ok THEN res.value ELSE payment_data
              /\ db_address' = db_address
                     \cup address_rows_written(
                            shipping, gt.payment_intent.shipping_address_id,
                            found)
                     \cup address_rows_written(
                            billing, gt.payment_intent.billing_address_id,
                            found)
              /\ pc' = Step("GetTracker", res, "return")
              /\ result' = Outcome("GetTracker", res, "return")
    /\ UNCHANGED << db_intent, db_attempt, db_connector_response, validated,
                    router_data, dispatched, ut, stages, writes, calls, pre,
                    prior_call_succeeded >>

\* ------------------------------------------------------------ dispatcher

\* cancel_flow.rs lines 22-35: the flow invocation record, built from a
\* clone of the working state, or a failure to build it.
construct_r_d(data, buildable) ==
    IF ~buildable THEN Err("InternalServerError")
    ELSE Ok([payment_id |-> data.payment_attempt.payment_id,
             merchant_id |-> data.payment_attempt.merchant_id,
             txn_id |-> data.payment_attempt.txn_id,
             amount |-> data.amount,
             currency |-> data.currency,
             response |-> None])

ConstructFlowSpecificData ==
    /\ pc = "construct_r_d"
    /\ payment_data # NoRow
    /\ \E buildable \in BOOLEAN :
          LET res == construct_r_d(payment_data, buildable)
          IN  /\ router_data' = IF res.ok THEN res.value ELSE router_data
              /\ pc' = Step("ConstructFlowSpecificData", res, "return")
              /\ result' = Outcome("ConstructFlowSpecificData", res, "return")
    /\ request' = EmptyRequest
    /\ validated' = NoRow
    /\ stages' = Append(stages, "ConstructFlowSpecificData")
    /\ UNCHANGED << db, gt, payment_data, dispatched, ut, writes, calls,
                    pre, prior_call_succeeded >>

\* services::execute_connector_processing_step: Skip returns the record as
\* it is, with no network access; Trigger makes one network call and returns
\* the record with the parsed response, or the connector error.
execute_connector_processing_step(req, call_connector_action, outcome) ==
    IF call_connector_action = "Skip"
    THEN [resp |-> Ok(req), calls |-> 0, action |-> call_connector_action]
    ELSE [resp |-> IF outcome = "Success"
                   THEN Ok([req EXCEPT !.response = "Received"])
                   ELSE Err([connector_error |-> outcome]),
          calls |-> 1, action |-> call_connector_action]

\* ConnectorErrorExt::to_payment_failed_response
to_payment_failed_response(error) ==
    [payment_failed |-> TRUE,
     reason |-> IF error.connector_error = "NonSuccessStatus"
                THEN "connector code and message" ELSE "generic failure"]

\* Mutant: the execution step is tried again when it fails.
decide_flow_retries(self, call_connector_action, outcome) ==
    LET step == execute_connector_processing_step(self, call_connector_action,
                                                  outcome)
        again == execute_connector_processing_step(self, call_connector_action,
                                                   outcome)
    IN  IF step.resp.ok
        THEN [resp |-> Ok(step.resp.value), calls |-> step.calls,
              action |-> step.action]
        ELSE [resp |-> IF again.resp.ok THEN Ok(again.resp.value)
                       ELSE Err(to_payment_failed_response(again.resp.error)),
              calls |-> step.calls + again.calls,
              action |-> again.action]

\* Mutant: a failure of the execution step is swallowed.
decide_flow_swallows(self, call_connector_action, outcome) ==
    LET step == execute_connector_processing_step(self, call_connector_action,
                                                  outcome)
    IN  [resp |-> IF step.resp.ok THEN Ok(step.resp.value) ELSE Ok(self),
         calls |-> step.calls,
         action |-> step.action]

\* cancel_flow.rs lines 72-103
decide_flow(self, call_connector_action, outcome) ==
    LET step == execute_connector_processing_step(self, call_connector_action,
                                                  outcome)
    IN  [resp |-> IF step.resp.ok THEN Ok(step.resp.value)
                  ELSE Err(to_payment_failed_response(step.resp.error)),
         calls |-> step.calls,
         action |-> step.action]

\* Mutant: a failed call marks the attempt of the working state Failed.
decide_flows_marks_failed(self, data, call_connector_action, outcome) ==
    LET flow == decide_flow(self, call_connector_action, outcome)
    IN  [resp |-> flow.resp,
         payment_data |->
             IF flow.resp.ok THEN data
             ELSE [data EXCEPT !.payment_attempt.status = "Failed"],
         calls |-> flow.calls, action |-> flow.action]

\* Mutant: the call action is not passed on; the call is always triggered.
decide_flows_always_triggers(self, data, call_connector_action, outcome) ==
    LET flow == decide_flow(self, "Trigger", outcome)
    IN  [resp |-> flow.resp, payment_data |-> data, calls |-> flow.calls,
         action |-> flow.action]

\* cancel_flow.rs lines 41-67
decide_flows(self, data, call_connector_action, outcome) ==
    LET flow == decide_flow(self, call_connector_action, outcome)
    IN  [resp |-> flow.resp, payment_data |-> data, calls |-> flow.calls,
         action |-> flow.action]

DecideFlows ==
    /\ pc = "decide_flows"
    /\ router_data # NoRow
    /\ \E call_connector_action \in CallConnectorAction,
          outcome \in ConnectorOutcome :
          LET ret == decide_flows(router_data, payment_data,
                                  call_connector_action, outcome)
          IN  /\ dispatched' =
                   [done |-> TRUE,
                    given |-> payment_data,
                    record |-> router_data,
                    call_connector_action |-> call_connector_action,
                    outcome |-> IF ret.calls = 0 THEN None ELSE outcome,
                    engine_action |-> ret.action,
                    resp |-> ret.resp,
                    payment_data |-> ret.payment_data]
              /\ payment_data' = ret.payment_data
              /\ calls' = calls + ret.calls
    /\ pc' = Runner("Dispatcher", TRUE)
    /\ stages' = Append(stages, "Dispatcher")
    /\ UNCHANGED << db, request, validated, gt, router_data, result, ut,
                    writes, pre, prior_call_succeeded >>

\* -------------------------------------------------------- update_trackers

\* Mutant: an absent authentication type is taken for NoThreeDs.
confirm_status_absent_as_no_three_ds(authentication_type) ==
    IF authentication_type \in {"NoThreeDs", None}
    THEN [intent_status |-> "Processing", attempt_status |-> "Pending"]
    ELSE [intent_status |-> "RequiresCustomerAction",
          attempt_status |-> "PendingVbv"]

\* lines 167-177
confirm_status(authentication_type) ==
    IF authentication_type = "NoThreeDs"
    THEN [intent_status |-> "Processing", attempt_status |-> "Pending"]
    ELSE [intent_status |-> "RequiresCustomerAction",
          attempt_status |-> "PendingVbv"]

\* StorageErrorExt::to_not_found_response
to_not_found_response(db_outcome, not_found_response) ==
    IF db_outcome = "NotFound" THEN not_found_response
    ELSE "InternalServerError"

\* lines 182-185: the fields the attempt update names.
ConfirmUpdate(status, payment_method) ==
    [status |-> status, payment_method |-> payment_method]

\* lines 200-204: the fields the intent update names.
MerchantStatusUpdate(status, shipping_address_id, billing_address_id) ==
    [status |-> status, shipping_address_id |-> shipping_address_id,
     billing_address_id |-> billing_address_id]

\* A partial update: the row with the fields the update names changed and
\* every other field kept.
apply_update(row, update) ==
    [f \in DOMAIN row |-> IF f \in DOMAIN update THEN update[f] ELSE row[f]]

\* Db::update_payment_attempt: the persisted row of `this` attempt, updated.
update_payment_attempt(row, this, payment_attempt_update, db_outcome) ==
    IF ~(row.exists /\ row.payment_id = this.payment_id
                    /\ row.merchant_id = this.merchant_id
                    /\ row.txn_id = this.txn_id)
    THEN Err("NotFound")
    ELSE IF db_outcome # "Ok" THEN Err(db_outcome)
    ELSE Ok(apply_update(row, payment_attempt_update))

\* Db::update_payment_intent: the persisted row of `this` intent, updated.
update_payment_intent(row, this, payment_intent_update, db_outcome) ==
    IF ~(row.exists /\ row.payment_id = this.payment_id
                    /\ row.merchant_id = this.merchant_id)
    THEN Err("NotFound")
    ELSE IF db_outcome # "Ok" THEN Err(db_outcome)
    ELSE Ok(apply_update(row, payment_intent_update))

\* Mutant: the intent update is made also when the attempt update failed.
UpdateTrackers_Attempt_goes_on ==
    /\ pc = "update_trackers"
    /\ payment_data # NoRow
    /\ \E db_outcome \in DbOutcome :
          LET payment_method == payment_data.payment_attempt.payment_method
              status == confirm_status(
                            payment_data.payment_attempt.authentication_type)
              updated == update_payment_attempt(
                             db_attempt, payment_data.payment_attempt,
                             ConfirmUpdate(status.attempt_status,
                                           payment_method),
                             db_outcome)
          IN  /\ ut' = status
              /\ db_attempt' = IF updated.ok THEN updated.value ELSE db_attempt
              /\ writes' = IF updated.ok THEN writes + 1 ELSE writes
              /\ payment_data' =
                   IF updated.ok
                   THEN [payment_data EXCEPT !.payment_attempt = updated.value]
                   ELSE payment_data
              /\ pc' = "ut_update_intent"
              /\ result' = None
    /\ stages' = Append(stages, "UpdateTracker")
    /\ UNCHANGED << db_intent, db_connector_response, db_address, request,
                    validated, gt, router_data, dispatched, calls, pre,
                    prior_call_succeeded >>

\* lines 165-190
UpdateTrackers_Attempt ==
    /\ pc = "update_trackers"
    /\ payment_data # NoRow
    /\ \E db_outcome \in DbOutcome :
          LET payment_method == payment_data.payment_attempt.payment_method
              status == confirm_status(
                            payment_data.payment_attempt.authentication_type)
              updated == update_payment_attempt(
                             db_attempt, payment_data.payment_attempt,
                             ConfirmUpdate(status.attempt_status,
                                           payment_method),
                             db_outcome)
              res == IF updated.ok THEN updated
                     ELSE Err(to_not_found_response(updated.error,
                                                    "PaymentNotFound"))
          IN  /\ ut' = status
              /\ db_attempt' = IF updated.ok THEN updated.value ELSE db_attempt
              /\ writes' = IF updated.ok THEN writes + 1 ELSE writes
              /\ payment_data' =
                   IF updated.ok
                   THEN [payment_data EXCEPT !.payment_attempt = updated.value]
                   ELSE payment_data
              /\ pc' = Step("UpdateTracker", res, "ut_update_intent")
              /\ result' = Outcome("UpdateTracker", res, "ut_update_intent")
    /\ stages' = Append(stages, "UpdateTracker")
    /\ UNCHANGED << db_intent, db_connector_response, db_address, request,
                    validated, gt, router_data, dispatched, calls, pre,
                    prior_call_succeeded >>

\* lines 192-211
UpdateTrackers_Intent ==
    /\ pc = "ut_update_intent"
    /\ \E db_outcome \in DbOutcome :
          LET shipping_address == payment_data.payment_intent.shipping_address_id
              billing_address == payment_data.payment_intent.billing_address_id
              updated == update_payment_intent(
                             db_intent, payment_data.payment_intent,
                             MerchantStatusUpdate(ut.intent_status,
                                                  shipping_address,
                                                  billing_address),
                             db_outcome)
              res == IF updated.ok THEN updated
                     ELSE Err(to_not_found_response(updated.error,
                                                    "PaymentNotFound"))
          IN  /\ db_intent' = IF updated.ok THEN updated.value ELSE db_intent
              /\ writes' = IF updated.ok THEN writes + 1 ELSE writes
              /\ payment_data' =
                   IF updated.ok
                   THEN [payment_data EXCEPT !.payment_intent = updated.value]
                   ELSE payment_data
              /\ pc' = Step("UpdateTracker", res, "return")
              /\ result' = Outcome("UpdateTracker", res, "return")
    /\ UNCHANGED << db_attempt, db_connector_response, db_address, request,
                    validated, gt, router_data, dispatched, ut, stages, calls,
                    pre, prior_call_succeeded >>

\* ---------------------------------------------------------- specification

Next ==
    \/ StartRun
    \/ ValidateRequest
    \/ GetTrackers_Begin
    \/ GetTrackers_FindIntent
    \/ GetTrackers_FindAttempt
    \/ GetTrackers_FindConnectorResponse
    \/ GetTrackers_Finish
    \/ ConstructFlowSpecificData
    \/ DecideFlows
    \/ UpdateTrackers_Attempt
    \/ UpdateTrackers_Intent
    \/ EndRun

Spec == Init /\ [][Next]_vars

\* Another writer on the same payment id (another operation, a webhook, a
\* sync) brings the payment to a terminal status while a Confirm run is
\* between its get_trackers and the end of its update_trackers: no lock
\* keeps it from doing so.  (A write before the run loads the intent is a
\* run on a terminal intent, which Init has.)
OtherWriter ==
    /\ pc \in {"construct_r_d", "decide_flows", "update_trackers",
              "ut_update_intent"}
    /\ db_attempt.exists
    /\ db_intent.status \notin IntentTerminal
    /\ \E p \in {<<"Succeeded", "Charged">>, <<"Failed", "Failed">>} :
          /\ db_intent' = [db_intent EXCEPT !.status = p[1]]
          /\ db_attempt' = [db_attempt EXCEPT !.status = p[2]]
    /\ UNCHANGED << db_connector_response, db_address, pc, request, validated,
                    gt, payment_data, router_data, dispatched, result, ut,
                    stages, writes, calls, pre, prior_call_succeeded >>

NextConc ==
    \/ StartRun
    \/ ValidateRequest
    \/ GetTrackers_Begin
    \/ GetTrackers_FindIntent
    \/ GetTrackers_FindAttempt
    \/ GetTrackers_FindConnectorResponse
    \/ GetTrackers_Finish
    \/ ConstructFlowSpecificData
    \/ DecideFlows
    \/ UpdateTrackers_Attempt
    \/ UpdateTrackers_Intent
    \/ EndRun
    \/ OtherWriter

\* A Confirm run interleaved with another writer on the same payment id.
SpecConc == Init /\ [][NextConc]_vars

\* ------------------------------------------------------------- properties

\* The positions of a run past get_trackers.
AfterGetTrackers ==
    {"construct_r_d", "decide_flows", "update_trackers", "ut_update_intent",
     "done"}

TerminalStateError == "InvalidDataFormat(payment_id)"

\* A run is under way on an intent that was persisted as Succeeded or Failed.
OnTerminalIntent ==
    /\ pre # NoRow
    /\ pre.payment_intent.exists
    /\ pre.payment_intent.status \in IntentTerminal

ConfirmPairs ==
    { <<"Processing", "Pending">>, <<"RequiresCustomerAction", "PendingVbv">> }

StatusOf(row) == IF row.exists THEN row.status ELSE None

PersistedPair == << StatusOf(db_intent), StatusOf(db_attempt) >>

\* C2: when update_trackers has returned with both updates made, the
\* persisted pair is (Processing, Pending) for an attempt whose
\* authentication type is NoThreeDs and (RequiresCustomerAction, PendingVbv)
\* for any other, absent included.
C2_ConfirmPair ==
    pc = "done" =>
        PersistedPair = IF db_attempt.authentication_type = "NoThreeDs"
                        THEN <<"Processing", "Pending">>
                        ELSE <<"RequiresCustomerAction", "PendingVbv">>

\* A payment with no authentication type, confirmed again from a pair an
\* earlier run left.
C2_Witness ==
    /\ pc = "done"
    /\ db_attempt.authentication_type = None
    /\ pre.payment_intent.status # "RequiresConfirmation"
    /\ PersistedPair = <<"RequiresCustomerAction", "PendingVbv">>

\* C3 as stated: when a Confirm run has ended, in success or in failure, the
\* persisted pair is a pair of Confirm's table or the pair persisted before
\* the run.
C3_Original ==
    pc \in {"done", "failed"} =>
        \/ PersistedPair \in ConfirmPairs
        \/ PersistedPair = << StatusOf(pre.payment_intent),
                              StatusOf(pre.payment_attempt) >>

\* The request's client secret and the loaded intent's are both present and
\* differ.
ClientSecretMismatch ==
    /\ gt.payment_intent.exists
    /\ request.client_secret # None
    /\ gt.payment_intent.client_secret # None
    /\ request.client_secret # gt.payment_intent.client_secret

\* C4: when get_trackers has loaded the intent and the request's client
\* secret differs from the stored one, it has failed with
\* client-secret-invalid right after the comparison, with the attempt not
\* loaded.
C4_ClientSecretBeforeAttempt ==
    ClientSecretMismatch =>
        /\ pc = "failed"
        /\ result = "ClientSecretInvalid"
        /\ gt.reached = "client_secret_check"
        /\ gt.payment_attempt = NoRow
        /\ writes = 0

\* A mismatch refused while the repository does hold the attempt.
C4_Witness ==
    /\ ClientSecretMismatch
    /\ result = "ClientSecretInvalid"
    /\ db_attempt.exists

ConnectorFailures == {"Timeout", "NonSuccessStatus", "MalformedBody"}

\* C5: decide_flows returns the working state it was given, whatever the
\* connector step ended in.
C5_WorkingStateReturned ==
    dispatched.done =>
        /\ dispatched.payment_data = dispatched.given
        /\ (pc = "update_trackers" => payment_data = dispatched.given)

\* The dispatcher returned after a connector error.
C5_Witness ==
    /\ dispatched.done
    /\ ~dispatched.resp.ok
    /\ dispatched.payment_data.payment_attempt.exists

\* C6: a dispatcher invocation with Trigger has made exactly one connector
\* call, also when that call failed.
C6_OneCall ==
    (dispatched.done /\ dispatched.call_connector_action = "Trigger") =>
        calls = 1

\* A triggered call that timed out.
C6_Witness ==
    /\ dispatched.done
    /\ dispatched.call_connector_action = "Trigger"
    /\ dispatched.outcome = "Timeout"
    /\ calls = 1

\* C7: with Skip, the execution step is given Skip, no connector call is
\* made and the flow invocation record comes back as it was, as a success.
C7_Skip ==
    (dispatched.done /\ dispatched.call_connector_action = "Skip") =>
        /\ dispatched.engine_action = "Skip"
        /\ calls = 0
        /\ dispatched.resp = Ok(dispatched.record)

\* A skipped dispatch.
C7_Witness ==
    /\ dispatched.done
    /\ dispatched.call_connector_action = "Skip"
    /\ dispatched.resp.ok

\* C8 as stated: when the connector call of a run failed and update_trackers
\* then made its updates, the persisted pair is the failed pair.
C8_Original ==
    (pc = "done" /\ dispatched.done /\ ~dispatched.resp.ok) =>
        PersistedPair = <<"Failed", "Failed">>

\* C9: a failure of the connector execution step comes back from
\* decide_flows as a payment-failed error, never as a success, together with
\* the working state, and the run goes on to update_trackers.
C9_PaymentFailed ==
    (dispatched.done /\ dispatched.outcome \in ConnectorFailures) =>
        /\ ~dispatched.resp.ok
        /\ "payment_failed" \in DOMAIN dispatched.resp.error
        /\ dispatched.payment_data.payment_attempt.exists
        /\ pc \in {"update_trackers", "ut_update_intent", "done", "failed"}
        /\ (pc = "failed" => "UpdateTracker" \in {stages[i] : i \in DOMAIN stages})

\* A malformed body came back as a payment-failed error.
C9_Witness ==
    /\ dispatched.done
    /\ dispatched.outcome = "MalformedBody"
    /\ ~dispatched.resp.ok
    /\ pc = "update_trackers"

StageOrder ==
    << "ValidateRequest", "GetTracker", "ConstructFlowSpecificData",
       "Dispatcher", "UpdateTracker" >>

\* The number of stages that have started when the run is at `at`.
StageOf(at) ==
    CASE at = "validate_request" -> 0
      [] at = "get_trackers" -> 1
      [] at \in {"gt_find_intent", "gt_find_attempt",
                 "gt_find_connector_response", "gt_addresses"} -> 2
      [] at = "construct_r_d" -> 2
      [] at = "decide_flows" -> 3
      [] at = "update_trackers" -> 4
      [] at \in {"ut_update_intent", "done"} -> 5
      [] OTHER -> 0

\* C10: the stages of a run have started in the fixed order, each after the
\* one before it returned without failure; a run that has a failure has
\* stopped at the stage that failed; a run that is done returns the working
\* state after all the stages.
C10_StageOrder ==
    /\ \E n \in 0..Len(StageOrder) : stages = SubSeq(StageOrder, 1, n)
    /\ (pc \notin {"idle", "failed"} =>
           /\ result = IF pc = "done" THEN "Ok" ELSE None
           /\ Len(stages) = StageOf(pc))
    /\ (pc = "failed" => result \notin {None, "Ok"} /\ Len(stages) >= 1)
    /\ (pc = "done" => payment_data.payment_intent.exists)

\* get_trackers failed and no later stage has started.
C10_Witness ==
    /\ pc = "failed"
    /\ stages = << "ValidateRequest", "GetTracker" >>
    /\ result = "PaymentNotFound"

\* validate_request or get_trackers has failed: the run ended in its first
\* or second stage.
FailedBeforeDispatch == pc = "failed" /\ Len(stages) \in {1, 2}

C12_Original ==
    (pc = "failed" /\ Len(stages) = 5) =>
        /\ db_attempt = pre.payment_attempt
        /\ db_intent = pre.payment_intent

\* get_trackers has returned to the runner, with the working state or with
\* an error.
GetTrackersReturned ==
    /\ Len(stages) = 2
    /\ pc \in {"failed", "construct_r_d"}

\* get_trackers got as far as its first repository lookup.
LookupsStarted == gt.reached # "begin"

\* The repository holds no intent for the run's (payment id, merchant id).
IntentRowMissing ==
    ~find_payment_intent_by_payment_id_merchant_id(
         db_intent, validated.value.payment_id.id,
         validated.value.merchant_id).ok

\* The repository holds no attempt for the run's (payment id, merchant id).
AttemptRowMissing ==
    ~find_payment_attempt_by_payment_id_merchant_id(
         db_attempt, validated.value.payment_id.id,
         validated.value.merchant_id).ok

\* The repository holds the attempt but no connector response for the
\* attempt's (payment id, merchant id, transaction id).
ConnectorResponseRowMissing ==
    /\ ~AttemptRowMissing
    /\ ~find_connector_response_by_payment_id_merchant_id_txn_id(
           db_connector_response, db_attempt.payment_id,
           db_attempt.merchant_id, db_attempt.txn_id).ok

RequiredRowMissing ==
    IntentRowMissing \/ AttemptRowMissing \/ ConnectorResponseRowMissing

\* C13 as stated: when get_trackers has returned and one of the three
\* required rows is missing, it has failed with the not-found error.
C13_Original ==
    (GetTrackersReturned /\ LookupsStarted /\ RequiredRowMissing) =>
        /\ pc = "failed"
        /\ result = "PaymentNotFound"

\* C13, amended: get_trackers returns a working state only when all three
\* rows exist, and fails when one is missing.  The error is the not-found
\* error of the first lookup whose row is missing, unless a check made
\* before that lookup fails first: the client-secret check comes before the
\* attempt lookup, the currency check before the connector-response lookup.
C13_RowsRequired ==
    GetTrackersReturned =>
        /\ (pc = "construct_r_d" => ~RequiredRowMissing)
        /\ (RequiredRowMissing => pc = "failed")
        /\ ((LookupsStarted /\ IntentRowMissing) =>
               /\ result = "PaymentNotFound"
               /\ gt.reached = "find_intent")
        /\ ((LookupsStarted /\ ~IntentRowMissing /\ AttemptRowMissing) =>
               IF ClientSecretMismatch THEN result = "ClientSecretInvalid"
               ELSE /\ result = "PaymentNotFound"
                    /\ gt.reached = "find_attempt")
        /\ ((LookupsStarted /\ ~IntentRowMissing
                            /\ ConnectorResponseRowMissing) =>
               IF ClientSecretMismatch THEN result = "ClientSecretInvalid"
               ELSE IF db_attempt.currency = None
                    THEN result = "MissingRequiredField(currency)"
                    ELSE /\ result = "PaymentNotFound"
                         /\ gt.reached = "find_connector_response")

\* The intent and the attempt were loaded and the connector response was
\* not found.
C13_Witness ==
    /\ GetTrackersReturned
    /\ ConnectorResponseRowMissing
    /\ gt.payment_attempt.exists
    /\ result = "PaymentNotFound"

\* The pair persisted before the run is the one a Confirm run of this
\* payment leaves when both its updates succeed.
ConfirmedBefore ==
    /\ pre # NoRow
    /\ pre.payment_attempt.exists
    /\ << pre.payment_intent.status, pre.payment_attempt.status >> =
           IF pre.payment_attempt.authentication_type = "NoThreeDs"
           THEN <<"Processing", "Pending">>
           ELSE <<"RequiresCustomerAction", "PendingVbv">>

\* A run that follows a successful connector call of an earlier run has been
\* dispatched with Skip.
SkipRerun ==
    /\ prior_call_succeeded
    /\ dispatched.done
    /\ dispatched.call_connector_action = "Skip"

\* C14 as stated: a Confirm run that follows a successful connector call,
\* dispatched with Skip, makes no connector call, leaves the persisted
\* intent and attempt statuses as they were before the run, and returns the
\* persisted rows.
C14_Original ==
    SkipRerun =>
        /\ calls = 0
        /\ PersistedPair = << pre.payment_intent.status,
                              pre.payment_attempt.status >>
        /\ (pc = "done" =>
              /\ payment_data.payment_intent = db_intent
              /\ payment_data.payment_attempt = db_attempt)

\* C14, amended: such a run makes no connector call and returns the
\* persisted rows; the persisted statuses stay as they were before the run
\* when the earlier run had persisted Confirm's pair, that is when its
\* update_trackers had succeeded too.
C14_SkipRerun ==
    SkipRerun =>
        /\ calls = 0
        /\ (ConfirmedBefore =>
              PersistedPair = << pre.payment_intent.status,
                                 pre.payment_attempt.status >>)
        /\ (pc = "done" =>
              /\ payment_data.payment_intent = db_intent
              /\ payment_data.payment_attempt = db_attempt)

\* The re-run has made both updates of update_trackers and returned.
C14_Witness ==
    /\ SkipRerun
    /\ ConfirmedBefore
    /\ pc = "done"
    /\ writes = 2

\* validate_request has returned to the runner.
ValidateRequestReturned ==
    /\ Len(stages) = 1
    /\ pc \in {"get_trackers", "failed"}

\* The request names a merchant other than the merchant account's.
MerchantMismatch ==
    request.merchant_id \notin {None, MerchantAccount.merchant_id}

\* The payment id validate_request returns for the request's: the supplied
\* one, or a generated one when none is supplied.
ExpectedPaymentId ==
    IF request.payment_id.kind = "Absent" THEN GeneratedPaymentId
    ELSE request.payment_id.id

\* No repository row differs from the rows persisted before the run.
RepositoryUntouched ==
    /\ db_intent = pre.payment_intent
    /\ db_attempt = pre.payment_attempt
    /\ db_connector_response = pre.connector_response
    /\ db_address = pre.address
    /\ writes = 0

\* C15 as stated: validate_request fails with the merchant-id validation
\* error when the request's merchant id differs from the merchant
\* account's; when it succeeds it returns the supplied payment id, or a
\* generated one if none was supplied; it leaves the repository alone.
C15_Original ==
    ValidateRequestReturned =>
        /\ (MerchantMismatch =>
              /\ ~validated.ok
              /\ validated.error = "InvalidDataFormat(merchant_id)")
        /\ (validated.ok =>
              validated.value.payment_id.id = ExpectedPaymentId)
        /\ RepositoryUntouched

\* C15, amended: as stated, except that a supplied payment id that is not
\* a payment-intent id is refused first, with the not-found error, also when
\* the merchant id differs.
C15_ValidateRequest ==
    ValidateRequestReturned =>
        /\ (MerchantMismatch =>
              /\ ~validated.ok
              /\ validated.error =
                   IF request.payment_id.kind
                          \in {"Absent", "PaymentIntentId"}
                   THEN "InvalidDataFormat(merchant_id)"
                   ELSE "PaymentNotFound")
        /\ (validated.ok =>
              validated.value.payment_id.id = ExpectedPaymentId)
        /\ RepositoryUntouched

\* A request with its own payment id and another merchant's id was refused.
C15_Witness ==
    /\ ValidateRequestReturned
    /\ MerchantMismatch
    /\ request.payment_id.kind = "PaymentIntentId"
    /\ result = "InvalidDataFormat(merchant_id)"

\* C16: when get_trackers has returned the working state, its amount and
\* currency are those of the persisted attempt row; once get_trackers has
\* loaded a persisted attempt that has no currency, it has failed with the
\* missing-currency error, and it returns no working state for such a row.
C16_AmountCurrency ==
    /\ (pc = "construct_r_d" =>
           /\ payment_data.amount = db_attempt.amount
           /\ payment_data.currency = db_attempt.currency
           /\ db_attempt.currency # None)
    /\ ((Len(stages) = 2 /\ gt.payment_attempt.exists
                         /\ db_attempt.currency = None) =>
           /\ pc = "failed"
           /\ result = "MissingRequiredField(currency)"
           /\ payment_data = NoRow)

\* get_trackers returned a working state with the largest amount.
C16_Witness ==
    /\ pc = "construct_r_d"
    /\ payment_data.amount = MaxAmount
    /\ payment_data.currency = "USD"
    /\ db_attempt.amount = MaxAmount

\* The assignment of lines 80 and 82, made once.
assign_payment_method_once(payment_method_type, payment_attempt) ==
    [payment_attempt EXCEPT !.payment_method =
         or(payment_method_type, payment_attempt.payment_method)]

\* C17: in the working state get_trackers returns, the attempt's payment
\* method is the request's when the request supplies one and the persisted
\* attempt's otherwise; and for the persisted attempt row and every payment
\* method of the request, absent included, making the assignment twice
\* gives what making it once gives.
C17_PaymentMethod ==
    /\ (pc = "construct_r_d" =>
           payment_data.payment_attempt.payment_method =
               IF request.payment_method # None THEN request.payment_method
               ELSE db_attempt.payment_method)
    /\ (db_attempt.exists =>
           \A pm \in {None} \cup PaymentMethodType :
              assign_payment_method(pm, db_attempt) =
                  assign_payment_method_once(pm, db_attempt))

\* The request's payment method replaced the stored one in the working
\* state.
C17_Witness ==
    /\ pc = "construct_r_d"
    /\ request.payment_method = "Wallet"
    /\ db_attempt.payment_method = "Card"
    /\ payment_data.payment_attempt.payment_method = "Wallet"

\* C18 as stated: in every interleaving of Confirm runs with another
\* writer, no step changes a persisted intent status that is Succeeded or
\* Failed.
C18_Original ==
    [][db_intent.status \in IntentTerminal =>
           db_intent'.status = db_intent.status]_vars

\* C18, amended: a run gets past get_trackers only with an intent it loaded
\* as not terminal; and the only step that changes a persisted terminal
\* status is the intent update of update_trackers, made by a run that had
\* loaded the intent before it became terminal: it overwrites the terminal
\* status with the status of Confirm's pair.
C18_StaleRunOverwrites ==
    /\ [](pc \in {"construct_r_d", "decide_flows", "update_trackers",
                   "ut_update_intent"} =>
             payment_data.payment_intent.status \notin IntentTerminal)
    /\ [][(db_intent.status \in IntentTerminal
              /\ db_intent'.status # db_intent.status) =>
             /\ pc = "ut_update_intent"
             /\ payment_data.payment_intent.status \notin IntentTerminal
             /\ db_intent'.status = ut.intent_status]_vars

\* The intent became terminal after the run had loaded it, and the run is
\* about to make its intent update.
C18_Witness ==
    /\ pc = "ut_update_intent"
    /\ db_intent.status \in IntentTerminal
    /\ pre.payment_intent.status \notin IntentTerminal
    /\ payment_data.payment_intent.status \notin IntentTerminal

\* C19: update_trackers makes the attempt update first; it comes to the
\* intent update only after the attempt update succeeded, so the intent row
\* is never changed while the attempt row is not; the attempt row differs
\* from the one persisted before only in status and payment method, the
\* intent row only in status and the two address ids.
C19_UpdateOrder ==
    Len(stages) = 5 =>
        /\ writes \in 0..2
        /\ (pc = "ut_update_intent" => writes = 1)
        /\ (writes = 0 =>
              /\ pc = "failed"
              /\ db_attempt = pre.payment_attempt)
        /\ (writes >= 1 =>
              db_attempt =
                  [pre.payment_attempt EXCEPT
                     !.status = ut.attempt_status,
                     !.payment_method =
                         payment_data.payment_attempt.payment_method])
        /\ (writes <= 1 => db_intent = pre.payment_intent)
        /\ (writes = 2 =>
              db_intent =
                  [pre.payment_intent EXCEPT
                     !.status = ut.intent_status,
                     !.shipping_address_id =
                         payment_data.payment_intent.shipping_address_id,
                     !.billing_address_id =
                         payment_data.payment_intent.billing_address_id])

\* Both updates were made, each changing a field it names: the attempt's
\* payment method and the intent's shipping address id.
C19_Witness ==
    /\ pc = "done"
    /\ writes = 2
    /\ db_attempt.payment_method # pre.payment_attempt.payment_method
    /\ db_intent.shipping_address_id # pre.payment_intent.shipping_address_id
    /\ db_attempt.amount = pre.payment_attempt.amount

\* get_trackers has made its client-secret check on the loaded intent.
ClientSecretChecked ==
    /\ Len(stages) = 2
    /\ gt.payment_intent.exists

\* C20: get_trackers has failed with client-secret-invalid only if the
\* request supplies a client secret, the loaded intent has one, and the two
\* differ; when the request supplies none, or the loaded intent has none,
\* the check has passed: the run has gone on to load the attempt, and no
\* later failure is client-secret-invalid.
C20_ClientSecretCheck ==
    /\ (result = "ClientSecretInvalid" =>
           /\ request.client_secret # None
           /\ gt.payment_intent.client_secret # None
           /\ request.client_secret # gt.payment_intent.client_secret)
    /\ ((ClientSecretChecked
            /\ (request.client_secret = None
                   \/ gt.payment_intent.client_secret = None)) =>
           /\ result # "ClientSecretInvalid"
           /\ (gt.reached = "client_secret_check" =>
                  pc = "gt_find_attempt"))

\* A request with a client secret passed the check on an intent that has
\* none stored.
C20_Witness ==
    /\ ClientSecretChecked
    /\ request.client_secret = "cs_b"
    /\ gt.payment_intent.client_secret = None
    /\ pc = "gt_find_attempt"

====
